---- MODULE Spec2Model ----
(***************************************************************************)
(* Model of triton-cache-keygen.py: the derivation of a Triton cache key   *)
(* (generate_triton_cache_key) and the command line run around it.         *)
(*                                                                         *)
(* Python strings are TLA+ strings.  Python values that are formatted or   *)
(* serialized (the toolchain fingerprint, the options, the components)     *)
(* are records [type, text, key, items].  The external collaborators       *)
(* (triton_key, the driver, the libtriton registry, os.environ) are        *)
(* inputs: each answers with a value or raises an exception.  Exceptions   *)
(* are the subclasses of Exception; "" stands for no exception.            *)
(***************************************************************************)
EXTENDS Integers, Sequences, FiniteSets, TLC

VARIABLES
    inp,        \* inp[i]: the argument and the collaborators' answers of invocation i
    res,        \* res[i]: what generate_triton_cache_key returned or raised, and the log
    verbose,    \* verbose[i]: args.verbose of run i
    pc,         \* pc[i]: where invocation i stands
    stdout,     \* stdout[i]: what run i has printed, one entry for each print
    exit_code   \* exit_code[i]: <<>> while run i runs, then <<status>>

vars == <<inp, res, verbose, pc, stdout, exit_code>>

\* Two invocations (two calls, or two runs of the process) are compared.
Runs == {1, 2}

\* Number of distinct values a cache-invalidating variable takes.
NumEnvValues == 2

-----------------------------------------------------------------------------
(* Python values *)

PyStr(s) == [type |-> "str", text |-> s, key |-> "", items |-> <<>>]

PyInt(s) == [type |-> "int", text |-> s, key |-> "", items |-> <<>>]

PyBool(b) == [type |-> "bool", text |-> IF b THEN "True" ELSE "False",
              key |-> "", items |-> <<>>]

PyTuple(items) == [type |-> "tuple", text |-> "", key |-> "", items |-> items]

\* A dict: its items are the values, each carrying its key, in insertion order.
PyDict(items) == [type |-> "dict", text |-> "", key |-> "", items |-> items]

Entry(k, v) == [v EXCEPT !.key = k]

\* dict(name -> value) of strings, from a sequence of <<name, value>> pairs.
StrDict(pairs) == PyDict([i \in 1..Len(pairs) |-> Entry(pairs[i][1], PyStr(pairs[i][2]))])

RECURSIVE Join(_, _)
\* sep.join(strs)
Join(sep, strs) ==
    IF strs = <<>> THEN ""
    ELSE IF Len(strs) = 1 THEN strs[1]
    ELSE strs[1] \o sep \o Join(sep, Tail(strs))

\* repr() of a str or an int
Repr(v) == IF v.type = "str" THEN "'" \o v.text \o "'" ELSE v.text

\* str(), as an f-string field formats the value
Str(v) ==
    IF v.type = "tuple"
    THEN IF Len(v.items) = 1
         THEN "(" \o Repr(v.items[1]) \o ",)"
         ELSE "(" \o Join(", ", [i \in 1..Len(v.items) |-> Repr(v.items[i])]) \o ")"
    ELSE v.text

-----------------------------------------------------------------------------
(* Ordering of strings (by code point), over the strings the model sorts *)

CodePointOrder ==
    <<"0", "1", "2", "3", "AMDGCN_ENABLE_DUMP", "TRITON_ALWAYS_COMPILE",
      "content", "debug", "hash", "info", "num_stages", "num_warps", "values">>

Rank(s) == CHOOSE i \in 1..Len(CodePointOrder) : CodePointOrder[i] = s

StrLess(a, b) == Rank(a) < Rank(b)

\* (k1, v1) < (k2, v2) on tuples of strings
TupleLess(p, q) == StrLess(p[1], q[1]) \/ (p[1] = q[1] /\ StrLess(p[2], q[2]))

RECURSIVE InsertPair(_, _)
InsertPair(p, s) ==
    IF s = <<>> THEN <<p>>
    ELSE IF TupleLess(p, s[1]) THEN <<p>> \o s
    ELSE <<s[1]>> \o InsertPair(p, Tail(s))

\* Mutant: the items are left in the order of the dict
SortedItems_insertion_order(pairs) == pairs

RECURSIVE SortedItems(_)
\* sorted(env_vars.items())
SortedItems(pairs) ==
    IF pairs = <<>> THEN <<>>
    ELSE InsertPair(pairs[1], SortedItems(Tail(pairs)))

RECURSIVE InsertEntry(_, _)
InsertEntry(e, s) ==
    IF s = <<>> THEN <<e>>
    ELSE IF StrLess(e.key, s[1].key) THEN <<e>> \o s
    ELSE <<s[1]>> \o InsertEntry(e, Tail(s))

RECURSIVE SortKeys(_)
\* the items of a dict as json.dumps(sort_keys=True) lists them
SortKeys(items) ==
    IF items = <<>> THEN <<>>
    ELSE InsertEntry(items[1], SortKeys(Tail(items)))

-----------------------------------------------------------------------------
(* json.dumps *)

Quote(s) == "\"" \o s \o "\""

JsonScalar(v) ==
    IF v.type = "str" THEN Quote(v.text)
    ELSE IF v.type = "bool" THEN (IF v.text = "True" THEN "true" ELSE "false")
    ELSE v.text

RECURSIVE JsonDumps(_)
\* json.dumps(v, sort_keys=True)
JsonDumps(v) ==
    IF v.type = "dict"
    THEN LET it == SortKeys(v.items)
         IN "{" \o Join(", ", [i \in 1..Len(it) |->
                                 Quote(it[i].key) \o ": " \o JsonDumps(it[i])]) \o "}"
    ELSE IF v.type = "tuple"
    THEN "[" \o Join(", ", [i \in 1..Len(v.items) |-> JsonDumps(v.items[i])]) \o "]"
    ELSE JsonScalar(v)

RECURSIVE Indent(_)
Indent(level) == IF level = 0 THEN "" ELSE "  " \o Indent(level - 1)

RECURSIVE JsonDumpsIndent(_, _)
\* json.dumps(v, indent=2, sort_keys=True), at nesting depth level
JsonDumpsIndent(v, level) ==
    IF v.type = "dict"
    THEN IF v.items = <<>> THEN "{}"
         ELSE LET it == SortKeys(v.items)
              IN "{\n" \o Join(",\n", [i \in 1..Len(it) |->
                                Indent(level + 1) \o Quote(it[i].key) \o ": "
                                \o JsonDumpsIndent(it[i], level + 1)])
                 \o "\n" \o Indent(level) \o "}"
    ELSE IF v.type = "tuple"
    THEN IF v.items = <<>> THEN "[]"
         ELSE "[\n" \o Join(",\n", [i \in 1..Len(v.items) |->
                                Indent(level + 1) \o JsonDumpsIndent(v.items[i], level + 1)])
              \o "\n" \o Indent(level) \o "]"
    ELSE JsonScalar(v)

\* The list of [name, value] lists that sorted(env_vars.items()) is for json
ItemsList(pairs) ==
    PyTuple([i \in 1..Len(pairs) |-> PyTuple(<<PyStr(pairs[i][1]), PyStr(pairs[i][2])>>)])

-----------------------------------------------------------------------------
(* hashlib.sha256(s.encode()).hexdigest(): SHA-256 is taken as collision   *)
(* free, and a digest as distinguishable from the text around it (it is    *)
(* 64 hex digits): the digest of s is the term sha256(s).                  *)

sha256_hexdigest(s) == "sha256(" \o s \o ")"

-----------------------------------------------------------------------------
(* Exceptions *)

\* issubclass(exc, cls), for the classes named by the except clauses
IsSubclass(exc, cls) ==
    \/ exc = cls
    \/ cls = "Exception" /\ exc # ""
    \/ cls = "ImportError" /\ exc = "ModuleNotFoundError"

-----------------------------------------------------------------------------
(* The answers of the external collaborators *)

\* triton.compiler.compiler.triton_key()
TritonKeyAnswers ==
    { [exc |-> "", value |-> PyStr("3.1.0-abc")],
      [exc |-> "", value |-> PyTuple(<<PyStr("3.1.0"), PyStr("abc")>>)],
      [exc |-> "", value |-> PyTuple(<<PyInt("3"), PyInt("1")>>)],
      [exc |-> "AttributeError", value |-> PyStr("")] }

\* triton.runtime.driver: the import, get_current_target(), the attributes read
DriverAnswers ==
    { [exc |-> "", at |-> "", backend |-> "cuda", arch |-> "90", warp_size |-> "32"],
      [exc |-> "", at |-> "", backend |-> "hip", arch |-> "gfx942", warp_size |-> "64"],
      [exc |-> "ModuleNotFoundError", at |-> "import", backend |-> "", arch |-> "", warp_size |-> ""],
      [exc |-> "RuntimeError", at |-> "get_current_target", backend |-> "", arch |-> "", warp_size |-> ""],
      [exc |-> "AttributeError", at |-> "warp_size", backend |-> "cuda", arch |-> "90", warp_size |-> ""] }

EnvNames == {"AMDGCN_ENABLE_DUMP", "TRITON_ALWAYS_COMPILE"}

EnvValues == {ToString(i) : i \in 0..(NumEnvValues - 1)}

\* The dicts the registry can return, as sequences of (name, value) in insertion order
EnvMappings ==
    {<<>>}
    \cup {<<<<n, v>>>> : n \in EnvNames, v \in EnvValues}
    \cup {<<<<n1, v1>>, <<n2, v2>>>> :
            <<n1, n2>> \in {p \in EnvNames \X EnvNames : p[1] # p[2]},
            <<v1, v2>> \in EnvValues \X EnvValues}

\* triton._C.libtriton.get_cache_invalidating_env_vars: the import, the call
RegistryAnswers ==
    { [exc |-> "", at |-> "", mapping |-> m] : m \in EnvMappings }
    \cup { [exc |-> "ModuleNotFoundError", at |-> "import", mapping |-> <<>>],
           [exc |-> "ImportError", at |-> "import", mapping |-> <<>>],
           [exc |-> "RuntimeError", at |-> "call", mapping |-> <<>>] }

\* os.environ's TRITON_DEBUG
DebugEnvs ==
    { [set |-> FALSE, value |-> ""], [set |-> TRUE, value |-> "0"],
      [set |-> TRUE, value |-> "1"], [set |-> TRUE, value |-> "true"] }

\* The argument source_hash: None, or a string
SourceArgs ==
    { [given |-> FALSE, text |-> ""] }
    \cup { [given |-> TRUE, text |-> t] :
             t \in {"", "dummy_source_content", "kernel_body", "other_kernel"} }

Inputs ==
    [source : SourceArgs, triton_key : TritonKeyAnswers, driver : DriverAnswers,
     debug : DebugEnvs, registry : RegistryAnswers]

-----------------------------------------------------------------------------
(* The functions of the program *)

\* Mutant: except Exception, as in get_current_target
get_cache_invalidating_env_vars_except_all(registry) ==
    IF registry.exc = "" THEN [exc |-> "", value |-> registry.mapping, log |-> <<>>]
    ELSE [exc |-> "", value |-> <<>>, log |-> <<"WARNING">>]

\* Mutant: no except clause, the ImportError propagates
get_cache_invalidating_env_vars_no_except(registry) ==
    [exc |-> registry.exc, value |-> registry.mapping, log |-> <<>>]

\* get_cache_invalidating_env_vars(): [exc, value, log]
get_cache_invalidating_env_vars(registry) ==
    IF registry.exc = "" THEN [exc |-> "", value |-> registry.mapping, log |-> <<>>]
    ELSE IF IsSubclass(registry.exc, "ImportError")
    THEN [exc |-> "", value |-> <<>>, log |-> <<"WARNING">>]
    ELSE [exc |-> registry.exc, value |-> <<>>, log |-> <<>>]

\* Mutant: except ImportError, as in get_cache_invalidating_env_vars
get_current_target_except_import(driver) ==
    IF driver.exc = ""
    THEN [exc |-> "",
          value |-> driver.backend \o "-" \o driver.arch \o "-" \o driver.warp_size,
          log |-> <<>>]
    ELSE IF IsSubclass(driver.exc, "ImportError")
    THEN [exc |-> "", value |-> "unknown-backend-0-0", log |-> <<"ERROR">>]
    ELSE [exc |-> driver.exc, value |-> "", log |-> <<>>]

\* get_current_target(): [exc, value, log]
get_current_target(driver) ==
    IF driver.exc = ""
    THEN [exc |-> "",
          value |-> driver.backend \o "-" \o driver.arch \o "-" \o driver.warp_size,
          log |-> <<>>]
    ELSE IF IsSubclass(driver.exc, "Exception")
    THEN [exc |-> "", value |-> "unknown-backend-0-0", log |-> <<"ERROR">>]
    ELSE [exc |-> driver.exc, value |-> "", log |-> <<>>]

\* get_env_vars_for_cache()
get_env_vars_for_cache(registry) == get_cache_invalidating_env_vars(registry)

\* Mutant: the placeholder only for None
SourceContent_if_none(source) ==
    IF source.given THEN source.text ELSE "dummy_source_content"

\* source_hash or "dummy_source_content"
SourceContent(source) ==
    IF source.given /\ source.text # "" THEN source.text ELSE "dummy_source_content"

\* Mutant: any value but "0" turns the toggle on
DebugOption_not_zero(debug) == (IF debug.set THEN debug.value ELSE "0") # "0"

\* os.getenv("TRITON_DEBUG", "0") == "1"
DebugOption(debug) == (IF debug.set THEN debug.value ELSE "0") = "1"

\* the options dict, in the order its keys are inserted
Options(debug) ==
    PyDict(<<Entry("num_warps", PyInt("4")), Entry("num_stages", PyInt("3")),
             Entry("debug", PyBool(DebugOption(debug)))>>)

\* json.dumps(options, sort_keys=True)
OptionsSerialization(options) == JsonDumps(options)

\* Mutant: the items are serialized in insertion order, without sorted()
EnvSerialization_unsorted(env_vars) == JsonDumps(ItemsList(env_vars))

\* json.dumps(sorted(env_vars.items()), sort_keys=True)
EnvSerialization(env_vars) == JsonDumps(ItemsList(SortedItems(env_vars)))

\* Mutant: the options digest is joined before the backend digest
KeyComponents_swapped(c) ==
    Str(c.triton_key) \o "-" \o c.source.hash \o "-" \o c.options.hash \o "-"
    \o c.backend.hash \o "-" \o c.environment.hash

\* the f-string joining the fingerprint and the four digests
KeyComponents(c) ==
    Str(c.triton_key) \o "-" \o c.source.hash \o "-" \o c.backend.hash \o "-"
    \o c.options.hash \o "-" \o c.environment.hash

NoComponents ==
    [triton_key |-> PyStr(""),
     source |-> [content |-> "", hash |-> ""],
     backend |-> [info |-> "", hash |-> ""],
     options |-> [values |-> PyDict(<<>>), hash |-> ""],
     environment |-> [variables |-> <<>>, hash |-> ""],
     final_composite |-> ""]

\* Mutant: the except clause logs and returns an empty key instead of raising
Raised_swallowed(exc, calls, log) ==
    [status |-> "returned", exc |-> "", key |-> "", components |-> NoComponents,
     calls |-> calls, log |-> log \o <<"ERROR">>]

\* What a call that raised leaves: no key, no components
Raised(exc, calls, log) ==
    [status |-> "raised", exc |-> exc, key |-> "", components |-> NoComponents,
     calls |-> calls, log |-> log \o <<"ERROR">>]

\* generate_triton_cache_key(source_hash), with the collaborators answering as in x
generate_triton_cache_key(x) ==
    IF x.triton_key.exc # ""
    THEN Raised(x.triton_key.exc, <<"triton_key">>, <<>>)
    ELSE
    LET source_content == SourceContent(x.source)
        target == get_current_target(x.driver)
        backend_info == target.value
        options == Options(x.debug)
        env == get_env_vars_for_cache(x.registry)
        env_vars == env.value
        c0 == [triton_key |-> x.triton_key.value,
               source |-> [content |-> source_content,
                           hash |-> sha256_hexdigest(source_content)],
               backend |-> [info |-> backend_info,
                            hash |-> sha256_hexdigest(backend_info)],
               options |-> [values |-> options,
                            hash |-> sha256_hexdigest(OptionsSerialization(options))],
               environment |-> [variables |-> env_vars,
                                hash |-> sha256_hexdigest(EnvSerialization(env_vars))],
               final_composite |-> ""]
        key_components == KeyComponents(c0)
    IN IF target.exc # ""
       THEN Raised(target.exc, <<"triton_key", "driver">>, <<>>)
       ELSE IF env.exc # ""
       THEN Raised(env.exc, <<"triton_key", "driver", "registry">>, target.log)
       ELSE [status |-> "returned", exc |-> "",
             key |-> sha256_hexdigest(key_components),
             components |-> [c0 EXCEPT !.final_composite = key_components],
             calls |-> <<"triton_key", "driver", "registry">>,
             log |-> target.log \o env.log]

\* A call not made yet
Pending ==
    [status |-> "pending", exc |-> "", key |-> "", components |-> NoComponents,
     calls |-> <<>>, log |-> <<>>]

-----------------------------------------------------------------------------
(* The command line run *)

\* format_component(component): [exc, text]
format_component(component) ==
    IF component.type = "dict"
    THEN [exc |-> "", text |-> JsonDumpsIndent(component, 0)]
    ELSE IF component.type = "tuple"
    THEN IF \A i \in 1..Len(component.items) : component.items[i].type = "str"
         THEN [exc |-> "",
               text |-> Join("\n", [i \in 1..Len(component.items) |->
                                      component.items[i].text])]
         ELSE [exc |-> "TypeError", text |-> ""]
    ELSE [exc |-> "", text |-> Str(component)]

\* The labels of the verbose breakdown, in the order main prints them
SectionLabels ==
    <<"\n1. Triton Installation Fingerprint:", "\n2. Source Code:",
      "\n3. Backend Configuration:", "\n4. Compilation Options:",
      "\n5. Environment Variables:", "\n6. Final Composite String:">>

\* The component main formats under the n-th label
SectionComponent(c, n) ==
    CASE n = 1 -> c.triton_key
      [] n = 2 -> PyDict(<<Entry("content", PyStr(c.source.content)),
                           Entry("hash", PyStr(c.source.hash))>>)
      [] n = 3 -> PyDict(<<Entry("info", PyStr(c.backend.info)),
                           Entry("hash", PyStr(c.backend.hash))>>)
      [] n = 4 -> PyDict(<<Entry("values", c.options.values),
                           Entry("hash", PyStr(c.options.hash))>>)
      [] n = 5 -> StrDict(c.environment.variables)
      [] OTHER -> PyStr(c.final_composite)

SectionPc(n) == "section" \o ToString(n)

HeaderLines == <<"\nCache Key Components Breakdown:", "----------------------------------------">>

FooterLines == <<"\n========================================", "Final Cache Key:">>

-----------------------------------------------------------------------------
(* Calls of generate_triton_cache_key, compared two by two *)

\* The inputs that differ from a in at most one of the five inputs
Variations(a) ==
    {[a EXCEPT !.source = s] : s \in SourceArgs}
    \cup {[a EXCEPT !.triton_key = t] : t \in TritonKeyAnswers}
    \cup {[a EXCEPT !.driver = d] : d \in DriverAnswers}
    \cup {[a EXCEPT !.debug = g] : g \in DebugEnvs}
    \cup {[a EXCEPT !.registry = r] : r \in RegistryAnswers}

Init ==
    /\ \E a \in Inputs : \E b \in Variations(a) : inp = <<a, b>>
    /\ res = <<Pending, Pending>>
    /\ verbose = <<FALSE, FALSE>>
    /\ pc = <<"call", "call">>
    /\ stdout = << <<>>, <<>> >>
    /\ exit_code = << <<>>, <<>> >>

\* One call of generate_triton_cache_key(source_hash); the second follows the first
Call(i) ==
    /\ pc[i] = "call"
    /\ i = 1 \/ pc[1] = "returned"
    /\ res' = [res EXCEPT ![i] = generate_triton_cache_key(inp[i])]
    /\ pc' = [pc EXCEPT ![i] = "returned"]
    /\ UNCHANGED <<inp, verbose, stdout, exit_code>>

Next == \E i \in Runs : Call(i)

Spec == Init /\ [][Next]_vars

-----------------------------------------------------------------------------
(* Runs of the script, compared two by two: the same collaborators, and    *)
(* main calls generate_triton_cache_key() without a source                 *)

InitCLI ==
    /\ \E a \in Inputs : ~a.source.given /\ inp = <<a, a>>
    /\ res = <<Pending, Pending>>
    /\ verbose \in [Runs -> BOOLEAN]
    /\ pc = <<"main", "main">>
    /\ stdout = << <<>>, <<>> >>
    /\ exit_code = << <<>>, <<>> >>

\* The second run starts when the first has exited
Running(i) == i = 1 \/ pc[1] = "exited"

\* except Exception in main: the critical log line, sys.exit(1)
Main_Fail(i, r) ==
    /\ res' = [res EXCEPT ![i] = [r EXCEPT !.log = @ \o <<"CRITICAL">>]]
    /\ exit_code' = [exit_code EXCEPT ![i] = <<1>>]
    /\ pc' = [pc EXCEPT ![i] = "exited"]

\* args = parse_args(); cache_key, components = generate_triton_cache_key()
Main_Generate(i) ==
    /\ pc[i] = "main"
    /\ Running(i)
    /\ LET g == generate_triton_cache_key(inp[i])
           r == [g EXCEPT !.log = <<"INFO">> \o @]
       IN IF r.status = "raised"
          THEN Main_Fail(i, r)
          ELSE /\ res' = [res EXCEPT ![i] = r]
               /\ pc' = [pc EXCEPT ![i] = IF verbose[i] THEN "header" ELSE "key"]
               /\ UNCHANGED exit_code
    /\ UNCHANGED <<inp, verbose, stdout>>

\* the two prints that open the breakdown
Main_PrintHeader(i) ==
    /\ pc[i] = "header"
    /\ stdout' = [stdout EXCEPT ![i] = @ \o HeaderLines]
    /\ pc' = [pc EXCEPT ![i] = SectionPc(1)]
    /\ UNCHANGED <<inp, res, verbose, exit_code>>

\* print(label); print(format_component(...)) for the n-th section
Main_PrintSection(i, n) ==
    /\ pc[i] = SectionPc(n)
    /\ LET f == format_component(SectionComponent(res[i].components, n))
       IN IF f.exc # ""
          THEN /\ stdout' = [stdout EXCEPT ![i] = @ \o <<SectionLabels[n]>>]
               /\ Main_Fail(i, res[i])
          ELSE /\ stdout' = [stdout EXCEPT ![i] = @ \o <<SectionLabels[n], f.text>>]
               /\ pc' = [pc EXCEPT ![i] = IF n < Len(SectionLabels)
                                          THEN SectionPc(n + 1) ELSE "footer"]
               /\ UNCHANGED <<res, exit_code>>
    /\ UNCHANGED <<inp, verbose>>

\* the two prints that close the breakdown
Main_PrintFooter(i) ==
    /\ pc[i] = "footer"
    /\ stdout' = [stdout EXCEPT ![i] = @ \o FooterLines]
    /\ pc' = [pc EXCEPT ![i] = "key"]
    /\ UNCHANGED <<inp, res, verbose, exit_code>>

\* print(f"\n{cache_key}"); sys.exit(0)
Main_PrintKey(i) ==
    /\ pc[i] = "key"
    /\ stdout' = [stdout EXCEPT ![i] = @ \o <<"\n" \o res[i].key>>]
    /\ exit_code' = [exit_code EXCEPT ![i] = <<0>>]
    /\ pc' = [pc EXCEPT ![i] = "exited"]
    /\ UNCHANGED <<inp, res, verbose>>

NextCLI ==
    \E i \in Runs :
        \/ Main_Generate(i)
        \/ Main_PrintHeader(i)
        \/ \E n \in 1..Len(SectionLabels) : Main_PrintSection(i, n)
        \/ Main_PrintFooter(i)
        \/ Main_PrintKey(i)

SpecCLI == InitCLI /\ [][NextCLI]_vars

-----------------------------------------------------------------------------
(* Properties *)

InputNames == {"source", "triton_key", "driver", "debug", "registry"}

\* The two invocations were given the same inputs named in F
Agree(F) == \A f \in F : inp[1][f] = inp[2][f]

\* The (name, value) pairs a mapping holds
Pairs(m) == {m[k] : k \in 1..Len(m)}

Finished(i) == res[i].status # "pending"

Returned(i) == res[i].status = "returned"

\* The registry answered the two invocations alike: the same failure, or dicts
\* that are equal (the same pairs, in whatever order they were inserted)
SameRegistryAnswer ==
    /\ inp[1].registry.exc = inp[2].registry.exc
    /\ inp[1].registry.at = inp[2].registry.at
    /\ Pairs(inp[1].registry.mapping) = Pairs(inp[2].registry.mapping)

SameDigests ==
    /\ res[1].components.source.hash = res[2].components.source.hash
    /\ res[1].components.backend.hash = res[2].components.backend.hash
    /\ res[1].components.options.hash = res[2].components.options.hash
    /\ res[1].components.environment.hash = res[2].components.environment.hash

\* C1 (determinism): two calls with the same source_text, the same toolchain
\* fingerprint, the same driver answer, the same TRITON_DEBUG and the same
\* registry answer return the same key and the same component digests (or fail
\* alike), whichever call came first and in whatever order the registry
\* inserted its variables.
C1_Determinism ==
    (Finished(1) /\ Finished(2)
     /\ Agree({"source", "triton_key", "driver", "debug"}) /\ SameRegistryAnswer)
    => /\ res[1].status = res[2].status
       /\ res[1].exc = res[2].exc
       /\ res[1].key = res[2].key
       /\ res[1].components.final_composite = res[2].components.final_composite
       /\ SameDigests

\* Two keys were returned for equal registry dicts inserted in different orders
C1_Witness ==
    /\ Returned(1) /\ Returned(2)
    /\ Agree({"source", "triton_key", "driver", "debug"}) /\ SameRegistryAnswer
    /\ inp[1].registry.mapping # inp[2].registry.mapping

RegistryError(i) ==
    inp[i].registry.exc # "" /\ ~IsSubclass(inp[i].registry.exc, "ImportError")

\* C3 as stated (propagation policy): whenever the toolchain fingerprint query
\* succeeds, generate_triton_cache_key returns a key: every failure of the
\* registry query and of the driver query is replaced by its sentinel.
C3_OnlyToolchainFailurePropagates ==
    \A i \in Runs :
        (Finished(i) /\ inp[i].triton_key.exc = "") =>
            /\ Returned(i)
            /\ inp[i].driver.exc # "" => res[i].components.backend.info = "unknown-backend-0-0"
            /\ inp[i].registry.exc # "" => res[i].components.environment.variables = <<>>

\* C3 as amended: with the toolchain fingerprint obtained, the call raises
\* exactly when the registry query raises an error that is no ImportError, and
\* then it raises that error; every failure of the driver query is replaced by
\* "unknown-backend-0-0" and an ImportError of the registry query by the empty
\* mapping.
C3_RegistryErrorPropagates ==
    \A i \in Runs :
        (Finished(i) /\ inp[i].triton_key.exc = "") =>
            /\ Returned(i) <=> ~RegistryError(i)
            /\ ~Returned(i) => res[i].exc = inp[i].registry.exc
            /\ (Returned(i) /\ inp[i].driver.exc # "")
                   => res[i].components.backend.info = "unknown-backend-0-0"
            /\ (Returned(i) /\ inp[i].registry.exc # "")
                   => res[i].components.environment.variables = <<>>

\* The call raised the registry's error although the fingerprint was obtained
\* and the driver's failure had been replaced
C3_Witness ==
    \E i \in Runs :
        /\ res[i].status = "raised"
        /\ inp[i].triton_key.exc = ""
        /\ inp[i].driver.exc # ""
        /\ res[i].exc = "RuntimeError"
        /\ res[i].calls = <<"triton_key", "driver", "registry">>

\* Invocation j is invocation i with the driver answering
DriverCounterpart(i, j) ==
    /\ Finished(j)
    /\ inp[j].driver.exc = ""
    /\ \A f \in InputNames \ {"driver"} : inp[i][f] = inp[j][f]

\* The driver was queried by invocation i, and raised
DriverRaised(i) ==
    Finished(i) /\ inp[i].triton_key.exc = "" /\ inp[i].driver.exc # ""

SameButBackend(i, j) ==
    /\ res[i].components.source = res[j].components.source
    /\ res[i].components.options = res[j].components.options
    /\ res[i].components.environment = res[j].components.environment

\* C5 as stated (backend degradation): whenever the driver query raises, the
\* derivation succeeds, the backend info is "unknown-backend-0-0" and its digest
\* the digest of that, and the source, options and environment components are
\* those of the derivation in which the driver answers.
C5_DriverFailureAlwaysSucceeds ==
    \A i \in Runs :
        DriverRaised(i) =>
            /\ Returned(i)
            /\ res[i].components.backend =
                   [info |-> "unknown-backend-0-0",
                    hash |-> sha256_hexdigest("unknown-backend-0-0")]
            /\ \A j \in Runs : DriverCounterpart(i, j) => SameButBackend(i, j)

\* C5 as amended: whenever the driver query raises, the derivation succeeds
\* unless the registry query raises an error that is no ImportError (then it
\* fails as it does when the driver answers); when it succeeds the backend info
\* is the sentinel, its digest the digest of the sentinel, and the source,
\* options and environment components are those of the derivation in which the
\* driver answers.
C5_DriverFailureDegrades ==
    \A i \in Runs :
        DriverRaised(i) =>
            /\ Returned(i) <=> ~RegistryError(i)
            /\ Returned(i) =>
                   res[i].components.backend =
                       [info |-> "unknown-backend-0-0",
                        hash |-> sha256_hexdigest("unknown-backend-0-0")]
            /\ \A j \in Runs :
                   DriverCounterpart(i, j) =>
                       /\ res[i].status = res[j].status
                       /\ res[i].exc = res[j].exc
                       /\ SameButBackend(i, j)

\* A driver that raised RuntimeError in get_current_target, beside the same
\* derivation with the driver answering: both returned a key
C5_Witness ==
    \E i, j \in Runs :
        /\ DriverRaised(i) /\ Returned(i)
        /\ inp[i].driver.at = "get_current_target"
        /\ DriverCounterpart(i, j) /\ Returned(j)
        /\ res[i].key # res[j].key

\* The registry of invocation i is unavailable: its import fails
RegistryUnavailable(i) ==
    inp[i].registry.at = "import" /\ IsSubclass(inp[i].registry.exc, "ImportError")

\* Invocation j is invocation i with the registry returning the empty mapping
EmptyRegistryCounterpart(i, j) ==
    /\ Finished(j)
    /\ inp[j].registry = [exc |-> "", at |-> "", mapping |-> <<>>]
    /\ \A f \in InputNames \ {"registry"} : inp[i][f] = inp[j][f]

\* C6 (environment degradation): with the registry unavailable the derivation
\* raises nothing of its own (it fails only as the toolchain fingerprint fails),
\* its environment mapping is empty, and its result is the result of the same
\* derivation with the registry returning the empty mapping.
C6_UnavailableRegistryIsEmptyMapping ==
    \A i \in Runs :
        (Finished(i) /\ RegistryUnavailable(i)) =>
            /\ inp[i].triton_key.exc = "" => Returned(i)
            /\ Returned(i) =>
                   res[i].components.environment =
                       [variables |-> <<>>,
                        hash |-> sha256_hexdigest(EnvSerialization(<<>>))]
            /\ \A j \in Runs :
                   EmptyRegistryCounterpart(i, j) =>
                       /\ res[i].status = res[j].status
                       /\ res[i].exc = res[j].exc
                       /\ res[i].key = res[j].key
                       /\ res[i].components = res[j].components

\* An unavailable registry, beside the same derivation with the empty mapping:
\* both returned a key
C6_Witness ==
    \E i, j \in Runs :
        /\ RegistryUnavailable(i) /\ Returned(i)
        /\ EmptyRegistryCounterpart(i, j) /\ Returned(j)


\* The two invocations differ in the input f alone
OnlyDiffer(f) == Agree(InputNames \ {f}) /\ inp[1][f] # inp[2][f]

\* C7 as stated (source sensitivity): two derivations that differ only in
\* source_text (two distinct strings, or a string and an absent source) have
\* different source digests and different keys; the placeholder is hashed only
\* when source_text is absent, the recorded content is the supplied text
\* otherwise.
C7_AnySourceChangeChangesKey ==
    /\ (Returned(1) /\ Returned(2) /\ OnlyDiffer("source")) =>
           /\ res[1].components.source.hash # res[2].components.source.hash
           /\ res[1].key # res[2].key
    /\ \A i \in Runs :
           Returned(i) =>
               res[i].components.source.content =
                   IF inp[i].source.given THEN inp[i].source.text
                   ELSE "dummy_source_content"

\* The text a derivation hashes: the supplied text when it is a non-empty
\* string, the placeholder when the source is absent or empty
HashedText(i) ==
    IF inp[i].source.given /\ inp[i].source.text # ""
    THEN inp[i].source.text ELSE "dummy_source_content"

\* C7 as amended: the recorded content is the supplied text when it is a
\* non-empty string and the placeholder when source_text is absent or empty,
\* and its digest is the source digest; two derivations that differ only in
\* source_text have different source digests and different keys exactly when
\* these texts differ (an absent source, the empty string and the placeholder
\* itself give one and the same key).
C7_HashedTextChangeChangesKey ==
    /\ (Returned(1) /\ Returned(2) /\ OnlyDiffer("source")) =>
           /\ res[1].components.source.hash # res[2].components.source.hash
                  <=> HashedText(1) # HashedText(2)
           /\ res[1].key # res[2].key <=> HashedText(1) # HashedText(2)
    /\ \A i \in Runs :
           Returned(i) =>
               res[i].components.source =
                   [content |-> HashedText(i), hash |-> sha256_hexdigest(HashedText(i))]

\* The empty string, for which the placeholder was hashed, beside a kernel:
\* two keys
C7_Witness ==
    /\ Returned(1) /\ Returned(2) /\ OnlyDiffer("source")
    /\ inp[1].source = [given |-> TRUE, text |-> ""]
    /\ inp[2].source = [given |-> TRUE, text |-> "kernel_body"]
    /\ res[1].components.source.content = "dummy_source_content"
    /\ res[1].key # res[2].key

\* The names of a mapping, and the value it gives a name
Names(m) == {m[k][1] : k \in 1..Len(m)}

ValueOf(m, n) == (CHOOSE p \in Pairs(m) : p[1] = n)[2]

\* The two registries answered with the same variables, one of them changed
OneValueChanged ==
    /\ inp[1].registry.exc = "" /\ inp[2].registry.exc = ""
    /\ LET m1 == inp[1].registry.mapping
           m2 == inp[2].registry.mapping
       IN /\ Names(m1) = Names(m2)
          /\ Cardinality({n \in Names(m1) : ValueOf(m1, n) # ValueOf(m2, n)}) = 1

\* The debug toggle: TRITON_DEBUG is set and equal to "1"
Toggle(i) == inp[i].debug.set /\ inp[i].debug.value = "1"

\* C8 (environment and debug sensitivity): with the other inputs fixed, one
\* changed value in the registry's mapping changes the environment digest and
\* the key and leaves the source, backend and options digests; a flipped debug
\* toggle (true is TRITON_DEBUG = "1", false any other value or unset) changes
\* the options digest and the key and leaves the source, backend and
\* environment digests; values with the same toggle give the same options.
C8_EnvAndDebugSensitivity ==
    (Returned(1) /\ Returned(2)) =>
        /\ (Agree(InputNames \ {"registry"}) /\ OneValueChanged) =>
               /\ res[1].components.environment.hash # res[2].components.environment.hash
               /\ res[1].key # res[2].key
               /\ res[1].components.source.hash = res[2].components.source.hash
               /\ res[1].components.backend.hash = res[2].components.backend.hash
               /\ res[1].components.options.hash = res[2].components.options.hash
        /\ (Agree(InputNames \ {"debug"}) /\ Toggle(1) # Toggle(2)) =>
               /\ res[1].components.options.hash # res[2].components.options.hash
               /\ res[1].key # res[2].key
               /\ res[1].components.source.hash = res[2].components.source.hash
               /\ res[1].components.backend.hash = res[2].components.backend.hash
               /\ res[1].components.environment.hash = res[2].components.environment.hash
        /\ (Agree(InputNames \ {"debug"}) /\ Toggle(1) = Toggle(2)) =>
               /\ res[1].components.options = res[2].components.options
               /\ res[1].key = res[2].key

\* One value changed in a mapping of two variables, with TRITON_DEBUG "1";
\* the calls with TRITON_DEBUG "1" beside "true" are other states of the run
C8_Witness ==
    /\ Returned(1) /\ Returned(2)
    /\ Agree(InputNames \ {"registry"}) /\ OneValueChanged
    /\ Len(inp[1].registry.mapping) = 2
    /\ Toggle(1)
    /\ res[1].key # res[2].key

\* The serialization of the options whose debug is b
OptionsJson(b) ==
    "{\"debug\": " \o (IF b THEN "true" ELSE "false")
    \o ", \"num_stages\": 3, \"num_warps\": 4}"

\* The dict d with its items inserted in the order f
Reordered(d, f) == PyDict([k \in 1..Len(d.items) |-> d.items[f[k]]])

\* C9 (mapping order independence): two mappings with the same (name, value)
\* pairs inserted in different orders have the same serialization, the same
\* environment digest and (the other inputs equal) the same key; the options
\* are serialized with their keys in the order debug, num_stages, num_warps in
\* whatever order they are inserted.
C9_MappingOrderIndependence ==
    /\ (Returned(1) /\ Returned(2)
        /\ Pairs(res[1].components.environment.variables)
               = Pairs(res[2].components.environment.variables)) =>
           /\ EnvSerialization(res[1].components.environment.variables)
                  = EnvSerialization(res[2].components.environment.variables)
           /\ res[1].components.environment.hash = res[2].components.environment.hash
           /\ Agree(InputNames \ {"registry"}) => res[1].key = res[2].key
    /\ \A i \in Runs :
           Returned(i) =>
               LET o == res[i].components.options
               IN /\ o.hash = sha256_hexdigest(OptionsJson(Toggle(i)))
                  /\ \A f \in Permutations(1..Len(o.values.items)) :
                         OptionsSerialization(Reordered(o.values, f))
                             = OptionsJson(Toggle(i))

\* Two keys returned for the same two variables inserted in opposite orders
C9_Witness ==
    /\ Returned(1) /\ Returned(2)
    /\ Agree(InputNames \ {"registry"})
    /\ Len(res[1].components.environment.variables) = 2
    /\ Len(res[2].components.environment.variables) = 2
    /\ res[1].components.environment.variables
           = <<res[2].components.environment.variables[2],
               res[2].components.environment.variables[1]>>
    /\ res[1].key = res[2].key


-----------------------------------------------------------------------------
(* Properties of the command line run *)

Exited(i) == pc[i] = "exited"

\* C4 (fatal path): when the toolchain fingerprint query raises,
\* generate_triton_cache_key raises (no key, no components), the run logs the
\* critical line and exits with status 1, and nothing is ever printed on
\* standard output, with and without --verbose.
C4_FatalPath ==
    \A i \in Runs :
        inp[i].triton_key.exc # "" =>
            /\ stdout[i] = <<>>
            /\ pc[i] \in {"main", "exited"}
            /\ Exited(i) =>
                   /\ exit_code[i] = <<1>>
                   /\ res[i].status = "raised"
                   /\ res[i].exc = inp[i].triton_key.exc
                   /\ res[i].key = ""
                   /\ res[i].components = NoComponents
                   /\ res[i].calls = <<"triton_key">>
                   /\ res[i].log = <<"INFO", "ERROR", "CRITICAL">>

\* A run without --verbose and a run with it both exited on the failed query
C4_Witness ==
    /\ inp[1].triton_key.exc # ""
    /\ verbose = <<FALSE, TRUE>>
    /\ Exited(1) /\ Exited(2)
    /\ exit_code = << <<1>>, <<1>> >>

\* The labels among the lines a run printed, in the order printed
RECURSIVE LabelsIn(_)
LabelsIn(lines) ==
    IF lines = <<>> THEN <<>>
    ELSE (IF \E n \in 1..Len(SectionLabels) : SectionLabels[n] = lines[1]
          THEN <<lines[1]>> ELSE <<>>) \o LabelsIn(Tail(lines))

\* C10 (success path): whenever the derivation succeeds, for a fingerprint
\* that is a string or a tuple, the run exits with status 0 and the key is the
\* last thing printed, printed once; with --verbose the six labeled sections
\* are printed before it in their order; and the key printed is the key
\* printed without --verbose.
C10_SuccessPath ==
    /\ \A i \in Runs :
           (Exited(i) /\ Returned(i)) =>
               /\ exit_code[i] = <<0>>
               /\ stdout[i] # <<>>
               /\ stdout[i][Len(stdout[i])] = "\n" \o res[i].key
               /\ Cardinality({k \in 1..Len(stdout[i]) :
                                  stdout[i][k] = "\n" \o res[i].key}) = 1
               /\ LabelsIn(stdout[i]) = IF verbose[i] THEN SectionLabels ELSE <<>>
    /\ (Exited(1) /\ Exited(2) /\ Returned(1) /\ Returned(2)) =>
           stdout[1][Len(stdout[1])] = stdout[2][Len(stdout[2])]

====
